---- MODULE Spec2Model ----
(***************************************************************************)
(* Model of rtn/npix/io.py: the sync-channel bit unpacker and edge         *)
(* detector (unpackbits, unpack_npix_sync) and the binary-file readers     *)
(* (map_binary, load_spikeglx_binary, extract_rawChunk, extract_syncChan). *)
(*                                                                         *)
(* Arrays are functions over 0-based index ranges, as in numpy.  A numpy   *)
(* int64 is modelled by the set of bit positions that are set in its       *)
(* two's-complement representation, so that bitwise AND is intersection    *)
(* and the 64-bit width of the integers is kept without needing numbers    *)
(* above 2^31.                                                             *)
(***************************************************************************)
EXTENDS Integers, Sequences, FiniteSets, TLC

VARIABLES
    fn,             \* which pure function the run calls
    x,              \* unpackbits: the input array (1-D, 0-based)
    num_bits,       \* unpackbits: the requested bit width
    syncdat,        \* unpack_npix_sync: the trigger data channel
    srate,          \* unpack_npix_sync: the sampling rate
    output_binary,  \* unpack_npix_sync: the output_binary flag
    pc,             \* "start" before the call, "done" after it returned
    out,            \* the value the call returned
    binfile,        \* file system: binary recordings, path -> content
    metafile,       \* file system: .meta files, path -> content
    npyfiles,       \* file system: .npy files written by np.save, name -> content
    dirs,           \* file system: the directories that exist
    avail,          \* psutil.virtual_memory()['available'], in bytes
    ncalls,         \* how many file operations the run has made
    call,           \* the last file operation called, with its arguments
    ret             \* its outcome: returned value or raised error, and its effects

pureVars == <<fn, x, num_bits, syncdat, srate, output_binary, pc, out>>
ioVars == <<binfile, metafile, npyfiles, dirs, avail, ncalls, call, ret>>
vars == <<fn, x, num_bits, syncdat, srate, output_binary, pc, out,
          binfile, metafile, npyfiles, dirs, avail, ncalls, call, ret>>

----------------------------------------------------------------------------
(* Bounds of the model *)

\* longest trigger data channel given to unpack_npix_sync
MaxLen == 4
\* longest array given to unpackbits
MaxUnpackLen == 2
\* largest bit width asked of unpackbits
MaxBits == 66

(* Program constants *)

\* width of numpy's default integer, the dtype of np.arange(num_bits)
WordBits == 64
\* width of a recorded sample (np.int16)
SampleBits == 16
\* the bit width unpack_npix_sync asks for
SyncBits == 16

\* the int16 samples the inputs are drawn from
SampleVals == {-32768, -1, 0, 1}
\* the sampling rates the inputs are drawn from
SRates == {1, 30000}

Min(a, b) == IF a < b THEN a ELSE b
Max(a, b) == IF a > b THEN a ELSE b

\* every 1-D array of n samples
ArraysOfLen(n) == [0..(n - 1) -> SampleVals]
Inputs(maxlen) == UNION {ArraysOfLen(n) : n \in 0..maxlen}
Size(a) == Cardinality(DOMAIN a)

----------------------------------------------------------------------------
(* numpy integer arithmetic *)

\* an int16 sample promoted to int64 (sign extension), as its set of set bits
Int64OfSample(s) ==
    {b \in 0..(SampleBits - 1) : ((s + 2^SampleBits) \div 2^b) % 2 = 1}
        \cup (IF s < 0 THEN SampleBits..(WordBits - 1) ELSE {})

Pow2Wrap32(b) == IF b < 32 THEN {b} ELSE {}
\* 2**b computed in int64: the power wraps modulo 2^64, so it is 0 from b = 64 on
Pow2Int64(b) == IF b < WordBits THEN {b} ELSE {}

\* x & y
BitAnd(a, b) == a \cap b
\* .astype(bool).astype(int)
AsBoolAsInt(v) == IF v # {} THEN 1 ELSE 0

unpackbits_msb_first(a, nbits) ==
    [shape |-> <<Size(a), nbits>>,
     data |-> [i \in DOMAIN a |-> [b \in 0..(nbits - 1) |->
                 AsBoolAsInt(BitAnd(Int64OfSample(a[i]), Pow2Int64(nbits - 1 - b)))]]]
\* unpackbits(x, num_bits): x & 2**arange(num_bits), as 0/1, shape (N, num_bits)
unpackbits(a, nbits) ==
    [shape |-> <<Size(a), nbits>>,
     data |-> [i \in DOMAIN a |-> [b \in 0..(nbits - 1) |->
                 AsBoolAsInt(BitAnd(Int64OfSample(a[i]), Pow2Int64(b)))]]]

----------------------------------------------------------------------------
(* the edge detector *)

RECURSIVE GCD(_, _)
GCD(a, b) == IF b = 0 THEN a ELSE GCD(b, a % b)
\* the number n/d (d > 0), in lowest terms
Frac(n, d) ==
    LET g == GCD(IF n < 0 THEN -n ELSE n, d)
    IN <<n \div g, d \div g>>
FracLess(p, q) == p[1] * q[2] < q[1] * p[2]

np_diff_reversed(dd) ==
    [i \in 0..(dd.shape[1] - 2) |->
        [c \in 0..(dd.shape[2] - 1) |-> dd.data[i][c] - dd.data[i + 1][c]]]
np_diff_abs(dd) ==
    [i \in 0..(dd.shape[1] - 2) |->
        [c \in 0..(dd.shape[2] - 1) |->
            IF dd.data[i + 1][c] # dd.data[i][c] THEN 1 ELSE 0]]
\* np.diff(dd, axis=0): out[i] = dd[i+1] - dd[i]
np_diff(dd) ==
    [i \in 0..(dd.shape[1] - 2) |->
        [c \in 0..(dd.shape[2] - 1) |-> dd.data[i + 1][c] - dd.data[i][c]]]

\* the k-th smallest (k from 1) element of a finite set of integers
Kth(S, k) == CHOOSE e \in S : Cardinality({j \in S : j < e}) = k - 1

np_where_next_row(m, ncols) ==
    LET T == {k \in 0..(Size(m) * ncols - 1) : m[k \div ncols][k % ncols]}
        flat == [p \in 1..Cardinality(T) |-> Kth(T, p)]
    IN <<[p \in DOMAIN flat |-> flat[p] \div ncols + 1],
         [p \in DOMAIN flat |-> flat[p] % ncols]>>
\* np.where(m) of a 2-D boolean array: the row indices and the column indices
\* of its true entries, in row-major order
np_where(m, ncols) ==
    LET T == {k \in 0..(Size(m) * ncols - 1) : m[k \div ncols][k % ncols]}
        flat == [p \in 1..Cardinality(T) |-> Kth(T, p)]
    IN <<[p \in DOMAIN flat |-> flat[p] \div ncols],
         [p \in DOMAIN flat |-> flat[p] % ncols]>>

np_unique_dense(s) == 0..(SyncBits - 1)
\* np.unique(s): the distinct values of s (iterated in increasing order)
np_unique(s) == {s[p] : p \in DOMAIN s}

\* a[mask]: the elements of a where mask holds, in order
BoolIndex(a, mask) ==
    LET T == {p \in DOMAIN a : mask[p]}
    IN [q \in 1..Cardinality(T) |-> a[Kth(T, q)]]

\* idx[0][idx[1] == ichan] / srate, for each ichan in np.unique(idx[1])
EventTimes(idx, rate) ==
    [ichan \in np_unique(idx[2]) |->
        LET sel == BoolIndex(idx[1], [p \in DOMAIN idx[2] |-> idx[2][p] = ichan])
        IN [q \in DOMAIN sel |-> Frac(sel[q], rate)]]

\* unpack_npix_sync(syncdat, srate, output_binary)
unpack_npix_sync(dat, rate, binary) ==
    LET dd == unpackbits(dat, SyncBits)
        mult == 1
        d == np_diff(dd)
        sync_idx_onset == np_where([i \in DOMAIN d |-> [c \in DOMAIN d[i] |->
                                        mult * d[i][c] > 0]], SyncBits)
        sync_idx_offset == np_where([i \in DOMAIN d |-> [c \in DOMAIN d[i] |->
                                        mult * d[i][c] < 0]], SyncBits)
    IN IF binary
       THEN [kind |-> "array", dd |-> dd]
       ELSE [kind |-> "events",
             onsets |-> EventTimes(sync_idx_onset, rate),
             offsets |-> EventTimes(sync_idx_offset, rate)]

----------------------------------------------------------------------------
(* the pure functions, applied to inputs drawn by Init *)

NoFiles == [p \in {} |-> 0]

IoIdle ==
    /\ binfile = NoFiles
    /\ metafile = NoFiles
    /\ npyfiles = NoFiles
    /\ dirs = {}
    /\ avail = 0
    /\ ncalls = 0
    /\ call = [fn |-> "none"]
    /\ ret = [kind |-> "none"]

Init ==
    /\ pc = "start"
    /\ out = [kind |-> "none"]
    /\ \/ /\ fn = "unpackbits"
          /\ x \in Inputs(MaxUnpackLen)
          /\ num_bits \in 0..MaxBits
          /\ syncdat = <<>>
          /\ srate = 1
          /\ output_binary = FALSE
       \/ /\ fn = "unpack_npix_sync"
          /\ syncdat \in Inputs(MaxLen)
          /\ srate \in SRates
          /\ output_binary \in BOOLEAN
          /\ x = <<>>
          /\ num_bits = SyncBits
    /\ IoIdle

CallUnpackbits ==
    /\ fn = "unpackbits"
    /\ pc = "start"
    /\ out' = [kind |-> "array", dd |-> unpackbits(x, num_bits)]
    /\ pc' = "done"
    /\ UNCHANGED <<fn, x, num_bits, syncdat, srate, output_binary>>
    /\ UNCHANGED ioVars

CallUnpackNpixSync ==
    /\ fn = "unpack_npix_sync"
    /\ pc = "start"
    /\ out' = unpack_npix_sync(syncdat, srate, output_binary)
    /\ pc' = "done"
    /\ UNCHANGED <<fn, x, num_bits, syncdat, srate, output_binary>>
    /\ UNCHANGED ioVars

Next ==
    \/ CallUnpackbits
    \/ CallUnpackNpixSync

Spec == Init /\ [][Next]_vars

----------------------------------------------------------------------------
(* The file system and the files of a recording.  A path is the record of  *)
(* its directory, base name and extension, so that os.path.dirname,        *)
(* os.path.splitext, bp[-4:] and bp.split('/')[-1] are field accesses.     *)
(* A binary file is its number of int16 values and the pattern of these    *)
(* values (little-endian, two bytes each).                                 *)

\* size of one stored value in bytes (np.dtype(np.int16).itemsize)
ItemSize == SampleBits \div 8

Path(d, n, e) == [dir |-> d, name |-> n, ext |-> e]
RecBin == Path("d", "rec", ".bin")
RecMeta == Path("d", "rec", ".meta")

\* the values a recording is made of, repeated along the file
FileVals == <<0, 1, 256, -1, 2>>
\* the int16 value stored at element position p of binary content f
Elem(f, p) == FileVals[((p + f.seed) % Len(FileVals)) + 1]
\* os.path.getsize
FileBytes(f) == f.nvals * ItemSize

None == [some |-> FALSE, v |-> 0]
Some(k) == [some |-> TRUE, v |-> k]

NoValue == [kind |-> "none"]
Return(value, trace) ==
    [kind |-> "return", exc |-> "", value |-> value, trace |-> trace]
Raise(exc, trace) ==
    [kind |-> "raise", exc |-> exc, value |-> NoValue, trace |-> trace]

\* entry [i, j] of the array a np.memmap returned: a view of the file
At(m, i, j) ==
    IF m.transposed
    THEN Elem(binfile[m.path], j * m.base[2] + i)
    ELSE Elem(binfile[m.path], i * m.base[2] + j)

\* np.memmap(fname, mode=mode, dtype=int16, shape=(nsamples, nchannels))
np_memmap(fname, mode, ns, nch, trace) ==
    IF mode \notin {"r", "c", "r+", "w+"}
    THEN Raise("ValueError", trace)
    ELSE IF fname \notin DOMAIN binfile
    THEN Raise("FileNotFoundError", trace)
    ELSE IF FileBytes(binfile[fname]) = 0
    THEN Raise("ValueError", trace)
    ELSE IF ns * nch * ItemSize > FileBytes(binfile[fname])
    THEN Raise("ValueError", trace)
    ELSE Return([kind |-> "memmap", path |-> fname, base |-> <<ns, nch>>,
                 shape |-> <<ns, nch>>, transposed |-> FALSE],
                Append(trace, "memmap"))

\* ret.transpose([1, 0])
Transpose(m) ==
    [m EXCEPT !.shape = <<m.shape[2], m.shape[1]>>, !.transposed = ~m.transposed]

\* map_binary(fname, nchannels, dtype=np.int16, mode=mode, nsamples=nsamples,
\* transpose=transpose): the outcome and the directories that exist afterwards
map_binary(fname, nchannels, mode, nsamples, transpose) ==
    LET exists == fname \in DOMAIN binfile
        create == ~exists /\ mode = "w"
        mkdir == create /\ fname.dir \notin dirs
        dirs1 == IF mkdir THEN dirs \cup {fname.dir} ELSE dirs
        trace1 == IF mkdir THEN <<"makedirs">> ELSE <<>>
    IN  IF ~exists /\ mode # "w"
        THEN [ret |-> Raise("ValueError", <<>>), dirs |-> dirs]
        ELSE IF ~nsamples.some /\ ~exists
        THEN [ret |-> Raise("ValueError", trace1), dirs |-> dirs1]
        ELSE
            LET ns == IF nsamples.some THEN nsamples.v
                      ELSE FileBytes(binfile[fname]) \div (nchannels * ItemSize)
                m == np_memmap(fname, mode, ns, nchannels, trace1)
            IN  [ret |-> IF m.kind = "return" /\ transpose
                         THEN [m EXCEPT !.value = Transpose(m.value)]
                         ELSE m,
                 dirs |-> dirs1]

\* read_spikeglx_meta(metafile): the parsed keys, or the error of a file that
\* lacks the keys the function looks up
read_spikeglx_meta(mf, trace) ==
    IF ~metafile[mf].typeThis
    THEN Raise("KeyError", Append(trace, "parse_meta"))
    ELSE Return(metafile[mf], Append(trace, "parse_meta"))

\* load_spikeglx_binary(fname): (map_binary(fname, nchans, mode='r'), meta)
load_spikeglx_binary(fname) ==
    LET mf == Path(fname.dir, fname.name, ".meta")
    IN  IF mf \notin DOMAIN metafile
        THEN Raise("ValueError", <<>>)
        ELSE
            LET meta == read_spikeglx_meta(mf, <<>>)
                m == map_binary(fname, meta.value.nSavedChans, "r", None, FALSE).ret
            IN  IF meta.kind = "raise" THEN meta
                ELSE IF m.kind = "raise"
                THEN Raise(m.exc, meta.trace \o m.trace)
                ELSE Return([data |-> m.value, meta |-> meta.value],
                            meta.trace \o m.trace)

----------------------------------------------------------------------------
(* extract_rawChunk *)

\* the channel count extract_rawChunk sizes the chunk with
ChunkChans == 385

\* the name '{bn}_t{t1}-{t2}_ch{c1}-{c2}.npy' in the directory of bp
RawChunkName(bp, times, channels) ==
    [dir |-> bp.dir, bn |-> <<bp.name, bp.ext>>, tag |-> "chunk",
     t1 |-> times[1], t2 |-> times[2],
     c1 |-> channels[1], c2 |-> channels[Len(channels)]]

RECURSIVE SumRaw(_, _, _)
\* the sum of raw[0..n-1]
SumRaw(raw, n, acc) == IF n = 0 THEN acc ELSE SumRaw(raw, n - 1, acc + raw[n - 1])

\* rc * (1.2e6 / 2**10 / ampFactor), then each channel minus its mean, for the
\* n samples raw of one channel: ((raw[s] * n - sum) / n) * 1.2e6 / (1024 * amp)
CenteredUv(raw, n, ampFactor) ==
    [s \in 0..(n - 1) |->
        Frac((raw[s] * n - SumRaw(raw, n, 0)) * 1200000, n * 1024 * ampFactor)]

\* what extract_rawChunk does once it found no saved chunk: the outcome and
\* the .npy files afterwards
ReadRawChunk(bp, times, channels, fs, ampFactor, Nchans, save, retflag, mem, rcp) ==
    LET t1 == times[1]
        t2 == times[2]
        chunkSize == fs * ChunkChans * 2 * (t2 - t1)
        first == t1 * fs * Nchans
        want == t2 * fs * Nchans - t1 * fs * Nchans
        got == IF bp \in DOMAIN binfile
               THEN Max(0, Min(want, binfile[bp].nvals - first))
               ELSE 0
        n == t2 * fs - t1 * fs
        rc == [r \in 0..(Len(channels) - 1) |->
                 CenteredUv([s \in 0..(n - 1) |->
                                Elem(binfile[bp], first + s * Nchans + channels[r + 1])],
                            n, ampFactor)]
        arr == [kind |-> "ndarray", shape |-> <<Len(channels), n>>, data |-> rc]
        by == [bp |-> bp, times |-> times, channels |-> channels, fs |-> fs,
               ampFactor |-> ampFactor, Nchans |-> Nchans]
        trace == IF save = 1 THEN <<"open", "read", "np.save">> ELSE <<"open", "read">>
    IN  IF 10 * chunkSize > 9 * mem
        THEN [ret |-> Return(NoValue, <<>>), npy |-> npyfiles]
        ELSE IF bp \notin DOMAIN binfile
        THEN [ret |-> Raise("FileNotFoundError", <<>>), npy |-> npyfiles]
        ELSE IF got # n * Nchans
        THEN [ret |-> Raise("ValueError", <<"open", "read">>), npy |-> npyfiles]
        ELSE [ret |-> Return(IF retflag = 1 THEN arr ELSE NoValue, trace),
              npy |-> IF save = 1
                      THEN (rcp :> [data |-> arr, by |-> by]) @@ npyfiles
                      ELSE npyfiles]

\* extract_rawChunk(bp, times, channels, fs, ampFactor, Nchans, syncChan, save, ret)
\* with mem bytes of memory available
extract_rawChunk(bp, times, channels, fs, ampFactor, Nchans, save, retflag, mem) ==
    LET rcp == RawChunkName(bp, times, channels)
    IN  IF Len(times) # 2
        THEN [ret |-> Raise("AssertionError", <<>>), npy |-> npyfiles]
        ELSE IF \E r \in DOMAIN channels : channels[r] > Nchans - 1
        THEN [ret |-> Raise("AssertionError", <<>>), npy |-> npyfiles]
        ELSE IF bp.ext # ".bin"
        THEN [ret |-> Raise("AssertionError", <<>>), npy |-> npyfiles]
        ELSE IF rcp \in DOMAIN npyfiles
        THEN [ret |-> Return(npyfiles[rcp].data, <<"np.load">>), npy |-> npyfiles]
        ELSE ReadRawChunk(bp, times, channels, fs, ampFactor, Nchans, save,
                          retflag, mem, rcp)

----------------------------------------------------------------------------
(* extract_syncChan *)

\* the first sample the reading loop seeks to
LoopStart == 30000
\* the loop runs while i is below this
LoopEnd == 60000

\* the name '{bn}_sync.npy' in the directory of bp
SyncName(bp) ==
    [dir |-> bp.dir, bn |-> <<bp.name, bp.ext>>, tag |-> "sync",
     t1 |-> 0, t2 |-> 0, c1 |-> 0, c2 |-> 0]

\* the two bytes of an int16 as the file stores them: low byte first
BytesOf(v) == <<(v % 2^SampleBits) % 256, (v % 2^SampleBits) \div 256>>
\* np.unpackbits of one uint8: its 8 bits, most significant first
UnpackByte(byte) == [k \in 0..7 |-> (byte \div 2^(7 - k)) % 2]
\* the 16 entries np.unpackbits gives for the two bytes of v
UnpackWord(v) ==
    [r \in 0..(SampleBits - 1) |->
        IF r < 8 THEN UnpackByte(BytesOf(v)[1])[r] ELSE UnpackByte(BytesOf(v)[2])[r - 8]]

\* how many samples the loop reads: i from LoopStart, while i < LoopEnd, until
\* the read at element i*Nchans + syncChan is past the end of the file, that is
\* until i exceeds (nvals - syncChan - 1) \div Nchans
SamplesRead(f, syncChan, Nchans) ==
    Max(0, Min(LoopEnd - 1, (f.nvals - syncChan - 1) \div Nchans) - LoopStart + 1)

\* entry [r, j] of the array extract_syncChan built: sc.reshape((Nsamples, 16)).T
\* of the unpacked bytes of the values read, kept as the place they were read
\* from (the recording is not written to)
SyncEntry(arr, r, j) ==
    UnpackWord(Elem(binfile[arr.of.path],
                    (arr.of.first + j) * arr.of.Nchans + arr.of.syncChan))[r]

\* extract_syncChan(bp, syncChan, fs, ampFactor, Nchans, save)
extract_syncChan(bp, syncChan, Nchans, save) ==
    LET rcp == SyncName(bp)
        f == binfile[bp]
        Nsamples == SamplesRead(f, syncChan, Nchans)
        arr == [kind |-> "ndarray", shape |-> <<SampleBits, Nsamples>>,
                of |-> [path |-> bp, first |-> LoopStart, syncChan |-> syncChan,
                        Nchans |-> Nchans]]
        by == [bp |-> bp, syncChan |-> syncChan, Nchans |-> Nchans]
    IN  IF bp.ext # ".bin"
        THEN [ret |-> Raise("AssertionError", <<>>), npy |-> npyfiles]
        ELSE IF rcp \in DOMAIN npyfiles
        THEN [ret |-> Return(npyfiles[rcp].data, <<"np.load">>), npy |-> npyfiles]
        ELSE IF bp \notin DOMAIN binfile
        THEN [ret |-> Raise("FileNotFoundError", <<>>), npy |-> npyfiles]
        ELSE IF FileBytes(f) = 0
        THEN \* the progress print divides by getsize(bp)/(Nchans*2), which is 0.0
             [ret |-> Raise("ZeroDivisionError", <<"open">>), npy |-> npyfiles]
        ELSE [ret |-> Return(arr, IF save = 1 THEN <<"open", "read", "np.save">>
                                  ELSE <<"open", "read">>),
              npy |-> IF save = 1
                      THEN (rcp :> [data |-> arr, by |-> by]) @@ npyfiles
                      ELSE npyfiles]

----------------------------------------------------------------------------
(* the file operations, called on one data directory *)

\* most file operations in one run
MaxCalls == 2
\* most raw chunks saved in one run
MaxSaved == 1

Seeds == {0, 1}
\* the .meta files next to d/rec.bin: well-formed or lacking typeThis
Metas == {[nSavedChans |-> 2, typeThis |-> TRUE],
          [nSavedChans |-> 3, typeThis |-> TRUE],
          [nSavedChans |-> 3, typeThis |-> FALSE]}

\* the arguments the calls are made with
MapPaths == {RecBin, Path("d", "new", ".bin"), Path("nd", "new", ".bin")}
ChunkPaths == {RecBin, Path("d", "new", ".bin")}
SyncPaths == {RecBin, Path("d", "new", ".bin"), Path("d", "rec", ".dat")}
ChanCounts == {2, 3}
Modes == {"r", "w"}
NsOpts == {None, Some(2)}
TimeWindows == {<<0, 1>>, <<0, 2>>}
ChannelLists == {<<0, 1>>, <<0, 2>>, <<0, 1, 2>>}
Rates == {1, 2}
AmpFactors == {500, 250}
MemAvail == {1000, 10000}

PureIdle ==
    /\ fn = "none"
    /\ x = <<>>
    /\ num_bits = 0
    /\ syncdat = <<>>
    /\ srate = 1
    /\ output_binary = FALSE
    /\ pc = "start"
    /\ out = [kind |-> "none"]

\* a data directory d holding rec.bin, of one of the sizes (in int16 values)
DataDir(sizes) ==
    /\ PureIdle
    /\ \E n \in sizes, k \in Seeds : binfile = (RecBin :> [nvals |-> n, seed |-> k])
    /\ npyfiles = NoFiles
    /\ dirs = {"d"}
    /\ avail = 0
    /\ ncalls = 0
    /\ call = [fn |-> "none"]
    /\ ret = [kind |-> "none"]

CallMapBinary ==
    \E fname \in MapPaths, nchannels \in ChanCounts, mode \in Modes,
       nsamples \in NsOpts, transpose \in BOOLEAN :
        LET r == map_binary(fname, nchannels, mode, nsamples, transpose)
        IN  /\ ncalls < MaxCalls
            /\ ncalls' = ncalls + 1
            /\ call' = [fn |-> "map_binary", fname |-> fname, nchannels |-> nchannels,
                        mode |-> mode, nsamples |-> nsamples, transpose |-> transpose]
            /\ ret' = r.ret
            /\ dirs' = r.dirs
            /\ UNCHANGED <<binfile, metafile, npyfiles, avail>>
            /\ UNCHANGED pureVars

CallLoadSpikeglxBinary ==
    \E fname \in MapPaths :
        /\ ncalls < MaxCalls
        /\ ncalls' = ncalls + 1
        /\ call' = [fn |-> "load_spikeglx_binary", fname |-> fname]
        /\ ret' = load_spikeglx_binary(fname)
        /\ UNCHANGED <<binfile, metafile, npyfiles, dirs, avail>>
        /\ UNCHANGED pureVars

NumChunks == Cardinality({k \in DOMAIN npyfiles : k.tag = "chunk"})

CallExtractRawChunk ==
    \E bp \in ChunkPaths, times \in TimeWindows, channels \in ChannelLists,
       fs \in Rates, ampFactor \in AmpFactors, Nchans \in ChanCounts,
       save \in {0, 1}, retflag \in {0, 1}, mem \in MemAvail :
        LET r == extract_rawChunk(bp, times, channels, fs, ampFactor, Nchans,
                                  save, retflag, mem)
        IN  /\ ncalls < MaxCalls
            /\ save = 1 => NumChunks < MaxSaved
                            \/ RawChunkName(bp, times, channels) \in DOMAIN npyfiles
            /\ ncalls' = ncalls + 1
            /\ call' = [fn |-> "extract_rawChunk", bp |-> bp, times |-> times,
                        channels |-> channels, fs |-> fs, ampFactor |-> ampFactor,
                        Nchans |-> Nchans, save |-> save, ret |-> retflag]
            /\ avail' = mem
            /\ ret' = r.ret
            /\ npyfiles' = r.npy
            /\ UNCHANGED <<binfile, metafile, dirs>>
            /\ UNCHANGED pureVars

CallExtractSyncChan ==
    \E bp \in SyncPaths, syncChan \in {1, 2}, Nchans \in ChanCounts, save \in {0, 1} :
        LET r == extract_syncChan(bp, syncChan, Nchans, save)
        IN  /\ ncalls < MaxCalls
            /\ ncalls' = ncalls + 1
            /\ call' = [fn |-> "extract_syncChan", bp |-> bp, syncChan |-> syncChan,
                        Nchans |-> Nchans, save |-> save]
            /\ ret' = r.ret
            /\ npyfiles' = r.npy
            /\ UNCHANGED <<binfile, metafile, dirs, avail>>
            /\ UNCHANGED pureVars

\* map_binary and load_spikeglx_binary on a small recording, with or without
\* its .meta file
InitMap ==
    /\ DataDir({0, 5, 9, 12})
    /\ \/ metafile = NoFiles
       \/ \E m \in Metas : metafile = (RecMeta :> m)

NextMap ==
    \/ CallMapBinary
    \/ CallLoadSpikeglxBinary

SpecMap == InitMap /\ [][NextMap]_vars

\* extract_rawChunk on a recording of 8 values
InitChunk ==
    /\ DataDir({8})
    /\ metafile = NoFiles

NextChunk == CallExtractRawChunk

SpecChunk == InitChunk /\ [][NextChunk]_vars

\* extract_syncChan on recordings shorter and longer than LoopStart samples
InitSyncChan ==
    /\ DataDir({0, 12, 60000, 60004, 90006, 120000, 180006})
    /\ metafile = NoFiles

NextSyncChan == CallExtractSyncChan

SpecSyncChan == InitSyncChan /\ [][NextSyncChan]_vars

----------------------------------------------------------------------------
(* What the claims are stated against: bit b of an integer sample s is     *)
(* floor(s / 2^b) mod 2, the b-th binary digit of s in two's complement.   *)
(* For a 16-bit sample floor(s / 2^b) is floor(s / 2^16) from b = 16 on.   *)

BitOf(s, b) == (s \div 2^Min(b, SampleBits)) % 2

\* a natural number below 2^w as its digits in base 2^16, least significant first
NumDigits(w) == (w + SampleBits - 1) \div SampleBits

RECURSIVE WeightedSum(_, _, _, _)
\* the sum over b in lo..hi of row[b] * 2^(b - base)
WeightedSum(row, lo, hi, base) ==
    IF lo > hi THEN 0
    ELSE row[lo] * 2^(lo - base) + WeightedSum(row, lo + 1, hi, base)

\* the sum over b in 0..w-1 of row[b] * 2^b, digit by digit (bits of distinct
\* positions never carry)
Recombine(row, w) ==
    [j \in 0..(NumDigits(w) - 1) |->
        WeightedSum(row, SampleBits * j, Min(SampleBits * j + SampleBits - 1, w - 1),
                    SampleBits * j)]

\* s modulo 2^w for a 16-bit sample s, digit by digit: for s < 0 and w > 16,
\* s mod 2^w = (2^16 + s) + (2^w - 2^16), and 2^w - 2^16 is the bits 16..w-1 set
SampleModPow2(s, w) ==
    [j \in 0..(NumDigits(w) - 1) |->
        IF j = 0 THEN s % 2^Min(w, SampleBits)
        ELSE IF s >= 0 THEN 0
        ELSE 2^Min(SampleBits, w - SampleBits * j) - 1]

\* the array r has shape (N, w), entries 0 or 1, entry [i, b] = bit b of a[i]
IsBitArrayOf(r, a, w) ==
    /\ r.shape = <<Size(a), w>>
    /\ DOMAIN r.data = DOMAIN a
    /\ \A i \in DOMAIN a :
        /\ DOMAIN r.data[i] = 0..(w - 1)
        /\ \A b \in 0..(w - 1) :
            /\ r.data[i][b] \in {0, 1}
            /\ r.data[i][b] = BitOf(a[i], b)

UnpackbitsDone == fn = "unpackbits" /\ pc = "done"
SyncDone == fn = "unpack_npix_sync" /\ pc = "done"
EventsDone == SyncDone /\ ~output_binary

Rising(a, c) ==
    {i \in 0..(Size(a) - 2) : BitOf(a[i], c) = 0 /\ BitOf(a[i + 1], c) = 1}
Falling(a, c) ==
    {i \in 0..(Size(a) - 2) : BitOf(a[i], c) = 1 /\ BitOf(a[i + 1], c) = 0}

StrictlyIncreasing(t) ==
    \A p, q \in DOMAIN t : p < q => FracLess(t[p], t[q])
Values(t) == {t[p] : p \in DOMAIN t}
Channels == 0..(SyncBits - 1)

\* C3: for every channel c, onsets[c] is increasing and holds exactly i/srate
\* for the indices i where bit c is 0 at sample i and 1 at sample i+1;
\* offsets[c] likewise for bit c 1 at sample i and 0 at sample i+1.
C3_EdgesAreTransitions ==
    EventsDone =>
        /\ DOMAIN out.onsets \subseteq Channels
        /\ DOMAIN out.offsets \subseteq Channels
        /\ \A c \in DOMAIN out.onsets :
            /\ StrictlyIncreasing(out.onsets[c])
            /\ Values(out.onsets[c]) = {Frac(i, srate) : i \in Rising(syncdat, c)}
        /\ \A c \in DOMAIN out.offsets :
            /\ StrictlyIncreasing(out.offsets[c])
            /\ Values(out.offsets[c]) = {Frac(i, srate) : i \in Falling(syncdat, c)}

\* C3's case: a channel that rises twice and falls in between
C3_Witness ==
    /\ EventsDone
    /\ \E c \in DOMAIN out.onsets \cap DOMAIN out.offsets :
        /\ Len(out.onsets[c]) = 2
        /\ Len(out.offsets[c]) = 1

\* channel c is low at every sample before index k and high from index k on
IsStep(a, c, k) ==
    /\ 0 < k
    /\ k < Size(a)
    /\ \A i \in DOMAIN a : BitOf(a[i], c) = (IF i < k THEN 0 ELSE 1)

\* C4 (as amended): for a step on channel c, low before index k and high from
\* index k on, there is exactly one onset on channel c, at time (k-1)/srate
\* (the index of the last low sample), and no offset on channel c.
C4_StepOnsetAtLastLow ==
    EventsDone =>
        \A c \in Channels : \A k \in DOMAIN syncdat :
            IsStep(syncdat, c, k) =>
                /\ c \in DOMAIN out.onsets
                /\ out.onsets[c] = <<Frac(k - 1, srate)>>
                /\ c \notin DOMAIN out.offsets

\* C4 as stated: the one onset is at time k/srate.
C4_StepOnsetAtFirstHigh ==
    EventsDone =>
        \A c \in Channels : \A k \in DOMAIN syncdat :
            IsStep(syncdat, c, k) =>
                /\ c \in DOMAIN out.onsets
                /\ out.onsets[c] = <<Frac(k, srate)>>
                /\ c \notin DOMAIN out.offsets

\* C4's case: a step whose first high sample is not sample 1
C4_Witness ==
    /\ EventsDone
    /\ \E c \in Channels : \E k \in DOMAIN syncdat : k >= 2 /\ IsStep(syncdat, c, k)

\* C5: channel c is a key of onsets iff it has a rising edge and a key of
\* offsets iff it has a falling edge, no key maps to an empty sequence, and a
\* constant input gives two empty mappings.
C5_SparseKeys ==
    EventsDone =>
        /\ \A c \in Channels :
            /\ c \in DOMAIN out.onsets <=> Rising(syncdat, c) # {}
            /\ c \in DOMAIN out.offsets <=> Falling(syncdat, c) # {}
        /\ \A c \in DOMAIN out.onsets : out.onsets[c] # <<>>
        /\ \A c \in DOMAIN out.offsets : out.offsets[c] # <<>>
        /\ (\A i, k \in DOMAIN syncdat : syncdat[i] = syncdat[k]) =>
                /\ DOMAIN out.onsets = {}
                /\ DOMAIN out.offsets = {}

\* C5's case: some channels have edges and others have none
C5_Witness ==
    /\ EventsDone
    /\ DOMAIN out.onsets # {}
    /\ DOMAIN out.onsets # Channels
    /\ DOMAIN out.offsets # {}
    /\ \E c \in Channels : c \notin DOMAIN out.onsets /\ c \notin DOMAIN out.offsets

\* C5's other case: an all-one input of several samples
C5_ConstantInput ==
    /\ EventsDone
    /\ Size(syncdat) >= 2
    /\ \A i \in DOMAIN syncdat : syncdat[i] = -1

----------------------------------------------------------------------------
(* The file operations *)

CalledMapBinary == call.fn = "map_binary"
CalledRawChunk == call.fn = "extract_rawChunk"
CalledSyncChan == call.fn = "extract_syncChan"

\* C6: for an existing file of nsamples * nchannels values, sample-major,
\* map_binary(fname, nchannels) returns an nchannels x nsamples array whose
\* entry [c, s] is the value stored at element s * nchannels + c.
C6_MapBinaryChannelsBySamples ==
    (/\ CalledMapBinary
     /\ call.fname \in DOMAIN binfile
     /\ call.mode = "r"
     /\ ~call.nsamples.some
     /\ ~call.transpose
     /\ binfile[call.fname].nvals > 0
     /\ binfile[call.fname].nvals % call.nchannels = 0) =>
        LET nch == call.nchannels
            ns == binfile[call.fname].nvals \div nch
        IN  /\ ret.kind = "return"
            /\ ret.value.shape = <<nch, ns>>
            /\ \A c \in 0..(nch - 1) : \A s \in 0..(ns - 1) :
                    At(ret.value, c, s) = Elem(binfile[call.fname], s * nch + c)

\* C7: when extract_rawChunk estimates that the chunk does not fit in memory
\* (chunk size above 0.9 of the available memory) and no saved chunk exists,
\* it raises an error before it opens or reads the binary file.
C7_MemoryShortRaises ==
    (/\ CalledRawChunk
     /\ \A r \in DOMAIN call.channels : call.channels[r] <= call.Nchans - 1
     /\ call.bp.ext = ".bin"
     /\ RawChunkName(call.bp, call.times, call.channels) \notin DOMAIN npyfiles
     /\ 10 * (call.fs * ChunkChans * 2 * (call.times[2] - call.times[1])) > 9 * avail) =>
        /\ ret.kind = "raise"
        /\ ret.trace = <<>>

\* C8: a missing file is reported by an immediate ValueError and nothing is
\* mapped or created: by map_binary when fname does not exist and mode is not
\* 'w', or mode is 'w' and nsamples is None; by load_spikeglx_binary when the
\* .meta file is missing, before any metadata is parsed or the binary mapped.
C8_MissingFileRaisesValueError ==
    /\ (/\ CalledMapBinary
        /\ call.fname \notin DOMAIN binfile
        /\ call.mode # "w" \/ ~call.nsamples.some) =>
            /\ ret.kind = "raise"
            /\ ret.exc = "ValueError"
            /\ ret.trace = <<>>
    /\ (/\ call.fn = "load_spikeglx_binary"
        /\ Path(call.fname.dir, call.fname.name, ".meta") \notin DOMAIN metafile) =>
            /\ ret.kind = "raise"
            /\ ret.exc = "ValueError"
            /\ ret.trace = <<>>

\* C9: a call of extract_rawChunk returns a saved array only if its extraction
\* parameters (time window, channel list, sampling rate, gain factor, channel
\* count) equal those of the call that saved it, and then it returns exactly
\* the array that call computed.
C9_SavedChunkKeyedByParameters ==
    (/\ CalledRawChunk
     /\ ret.kind = "return"
     /\ ret.trace = <<"np.load">>) =>
        LET saved == npyfiles[RawChunkName(call.bp, call.times, call.channels)]
        IN  /\ saved.by = [bp |-> call.bp, times |-> call.times,
                           channels |-> call.channels, fs |-> call.fs,
                           ampFactor |-> call.ampFactor, Nchans |-> call.Nchans]
            /\ ret.value = saved.data

\* C10: for a binary file of Nsamples samples of Nchans channels and no saved
\* sync file, extract_syncChan returns a 16 x Nsamples binary array whose
\* column s holds the 16 bits of the sync-channel value of sample s.
C10_SyncChanCoversRecording ==
    (/\ CalledSyncChan
     /\ call.bp.ext = ".bin"
     /\ call.bp \in DOMAIN binfile
     /\ call.syncChan < call.Nchans
     /\ binfile[call.bp].nvals % call.Nchans = 0
     /\ ret.trace # <<"np.load">>) =>
        LET Nsamples == binfile[call.bp].nvals \div call.Nchans
        IN  /\ ret.kind = "return"
            /\ ret.value.shape = <<SampleBits, Nsamples>>
            /\ \A s \in 0..(Nsamples - 1) : \A r \in 0..(SampleBits - 1) :
                    SyncEntry(ret.value, r, s)
                        = UnpackWord(Elem(binfile[call.bp],
                                          s * call.Nchans + call.syncChan))[r]

----------------------------------------------------------------------------
(* Alternation of the edges *)

\* the times reported for channel c in mapping m: none when c is not a key
TimesOf(m, c) == IF c \in DOMAIN m THEN m[c] ELSE <<>>

\* between any two consecutive times of a there is exactly one time of b
OneBetween(a, b) ==
    \A p \in 1..(Len(a) - 1) :
        Cardinality({q \in DOMAIN b : FracLess(a[p], b[q]) /\ FracLess(b[q], a[p + 1])}) = 1

\* C11: for every channel c the rising and falling edges alternate in time:
\* between two consecutive onsets there is exactly one offset and conversely,
\* no time is both an onset and an offset of the channel, and the numbers of
\* onsets and offsets of the channel differ by at most 1.
C11_EdgesAlternate ==
    EventsDone =>
        \A c \in Channels :
            LET on == TimesOf(out.onsets, c)
                off == TimesOf(out.offsets, c)
            IN  /\ OneBetween(on, off)
                /\ OneBetween(off, on)
                /\ Values(on) \cap Values(off) = {}
                /\ Len(on) - Len(off) \in {-1, 0, 1}

\* C11's case: a channel that falls twice and rises in between
C11_Witness ==
    /\ EventsDone
    /\ \E c \in DOMAIN out.onsets \cap DOMAIN out.offsets :
        /\ Len(out.offsets[c]) = 2
        /\ Len(out.onsets[c]) = 1
        /\ FracLess(out.offsets[c][1], out.onsets[c][1])
        /\ FracLess(out.onsets[c][1], out.offsets[c][2])

====
